---- MODULE Spec2Model ----
(***************************************************************************)
(* The generational slot map of SlotMapExample/Main.cpp (namespace v4):    *)
(* a chunked object table, a LIFO free list of slot indices, and 64-bit    *)
(* object ids that pack a slot index (low half) and a generation (high     *)
(* half).  The client side is main()'s v4_ids: the ids it got from         *)
(* create_object and has not passed to destroy_object yet.                 *)
(*                                                                         *)
(* Widths are scaled: the source's 32-bit halves of a long long become     *)
(* IndexBits and GenBits bits of a signed (IndexBits+GenBits)-bit integer, *)
(* the source's chunks of 256 objects become chunks of chunk_size objects. *)
(* All arithmetic is the source's, on the scaled widths.                   *)
(***************************************************************************)
EXTENDS Integers, Naturals, Sequences, FiniteSets, TLC

\* ------------------------------------------------------------------ bounds

\* Objects per chunk (256 in the source, Main.cpp line 119).
chunk_size == 2

\* Width of the index half of an object_id (32 in the source: the mask
\* 0xFFFFFFFF and the shift count 32).
IndexBits == 4

\* Width of the generation half of an object_id (32 in the source: what is
\* left of a 64-bit long long above the shift count).
GenBits == 2

\* No more than this many create_object and destroy_object calls in one run.
MaxCalls == 10

\* ------------------------------------------------------- integer helpers

RECURSIVE Pow2(_)
Pow2(n) == IF n = 0 THEN 1 ELSE 2 * Pow2(n - 1)

\* Number of values of the index half, of the generation half.
IndexSpan == Pow2(IndexBits)
GenSpan == Pow2(GenBits)

\* object_id is a signed integer of IndexBits + GenBits bits (long long).
IdMin == 0 - (IndexSpan * GenSpan) \div 2
IdMax == (IndexSpan * GenSpan) \div 2 - 1
object_id == IdMin .. IdMax

\* A result reduced to the width of object_id (two's complement).
WrapId(v) == ((v - IdMin) % (IndexSpan * GenSpan)) + IdMin

\* The mask one bit short (0x7FFFFFFF).
LowHalfShort(id) == id % (IndexSpan \div 2)

\* id & 0xFFFFFFFF
LowHalf(id) == id % IndexSpan

\* id >> 32 (arithmetic shift of a signed value)
ShiftRight(id) == id \div IndexSpan

\* g << 32, in the width of object_id
ShiftLeft(g) == WrapId(g * IndexSpan)

\* lo | hi for lo within the low half and hi a multiple of 2^IndexBits
BitOr(lo, hi) == lo + hi

\* ------------------------------------------------------------------ state

VARIABLES
    object_table,   \* v4::object_table: sequence of chunks; a chunk maps
                    \* offset 0..chunk_size-1 to an object [id |-> ...]
    free_list,      \* v4::free_list: sequence of slot indices, back = top
    v4_ids,         \* main's v4_ids: ids created and not yet destroyed
    stale,          \* history: id -> number of destroys of its slot since,
                    \* and including, the destroy of that id (counted up
                    \* to 2^GenBits + 1)
    peak,           \* history: the most ids that were live at one time
    freed,          \* history: the indices destroys freed and no create
                    \* has returned since, in the order of the destroys
    run,            \* history: the ids returned by the creates since the
                    \* table last grew, while no destroy has come between
    calls,          \* history: number of create and destroy calls so far
    last,           \* the last call: its name, its id, what it returned
    crashed,        \* the process has died (null or wild dereference)
    codec           \* the pair and the id of the packing round trip

vars == <<object_table, free_list, v4_ids, stale, peak, freed, run, calls, last,
          crashed, codec>>

nullptr == <<>>

\* A call as last records it.  err is the error a call reports; the calls of
\* Main.cpp report none (get_object returns a pointer or nullptr,
\* destroy_object returns nothing).
Call(op, id, obj, reused, grew) ==
    [op |-> op, id |-> id, obj |-> obj, reused |-> reused, grew |-> grew,
     err |-> "none"]

NoCall == Call("none", 0, nullptr, {}, FALSE)

NoCodec == [phase |-> "off", index |-> 0, generation |-> 0, id |-> 0,
            out |-> <<0, 0>>]

\* ------------------------------------------------------------ object table

\* Number of slots the table holds.
Allocated(table) == Len(table) * chunk_size

\* object_table[index / chunk_size] + (index % chunk_size)
Locate(index) == <<index \div chunk_size, index % chunk_size>>

\* *obj for a pointer into the table
Deref(table, obj) == table[obj[1] + 1][obj[2]]

\* The id stored in the slot with this index.
SlotId(table, index) == Deref(table, Locate(index)).id

\* The generation half of an id, as the unsigned count the spec speaks of.
Generation(id) == ShiftRight(id) % GenSpan

\* The offset alone, without the chunk's base (chunk[i].id = i).
ChunkInitIdOffset(size, i) == i

\* chunk[i].id = object_table.size() * chunk_size + i
ChunkInitId(size, i) == size * chunk_size + i

\* new object[chunk_size] after the initialising loop
NewChunk(size) == [i \in 0 .. chunk_size - 1 |-> [id |-> ChunkInitId(size, i)]]

\* The loop counting up (i = 0 to chunk_size - 1).
NewIndicesUp(size) == [k \in 1 .. chunk_size |-> size * chunk_size + (k - 1)]

\* The indices the loop pushes, in the order it pushes them
\* (i = chunk_size - 1 down to 0).
NewIndices(size) == [k \in 1 .. chunk_size |-> size * chunk_size + (chunk_size - k)]

\* The new chunk put in front of the table, which moves the chunks before it.
PushChunkFront(table, chunk) == <<chunk>> \o table

\* object_table.push_back(chunk)
PushChunk(table, chunk) == Append(table, chunk)

\* The index is not pushed: the slot is never offered again.
PushBackDropped(fl, index) == fl

\* The index is put at the bottom of the list instead of the top.
PushBackFront(fl, index) == <<index>> \o fl

\* free_list.push_back(index)
PushBack(fl, index) == Append(fl, index)

\* The oldest entry is taken instead of the newest (front()).
BackFront(fl) == fl[1]

\* free_list.back()
Back(fl) == fl[Len(fl)]

\* The pop is left out: the top index stays on the list.
PopBackKept(fl) == fl

\* free_list.pop_back()
PopBack(fl) == SubSeq(fl, 1, Len(fl) - 1)

\* The test is left out: the list is taken to hold an index.
EmptyNever(fl) == FALSE

\* free_list.empty()
Empty(fl) == Len(fl) = 0

\* The id is stored back as it was (v3: no generation).
RepackSame(id) == id

\* obj->id >> 32 + 1 without the parentheses: a shift by 33.
RepackShift33(id) == BitOr(LowHalf(id), ShiftLeft(id \div (2 * IndexSpan)))

\* The generation stops at its largest value instead of wrapping.
RepackSaturating(id) ==
    IF ShiftRight(id) % GenSpan = GenSpan - 1
    THEN id
    ELSE BitOr(LowHalf(id), ShiftLeft(ShiftRight(id) + 1))

\* The index half is not or-ed back in: ((obj->id >> 32) + 1) << 32.
RepackNoIndex(id) == ShiftLeft(ShiftRight(id) + 1)

\* (obj->id & 0xFFFFFFFF) | (((obj->id >> 32) + 1) << 32)
Repack(id) == BitOr(LowHalf(id), ShiftLeft(ShiftRight(id) + 1))

\* ------------------------------------------------------------- get_object

\* The comparison looks at the index half alone.
get_object_by_index(id) ==
    LET obj == Locate(LowHalf(id))
    IN  IF LowHalf(Deref(object_table, obj).id) # LowHalf(id) THEN nullptr ELSE obj

\* get_object(id) for an id whose index is inside the table.
get_object(id) ==
    LET obj == Locate(LowHalf(id))
    IN  IF Deref(object_table, obj).id # id THEN nullptr ELSE obj

\* The ids whose index addresses a slot of the table.
InRange(id) == LowHalf(id) < Allocated(object_table)

\* ------------------------------------------------------------------- Init

Init ==
    /\ object_table = <<>>
    /\ free_list = <<>>
    /\ v4_ids = {}
    /\ stale = <<>>
    /\ peak = 0
    /\ freed = <<>>
    /\ run = <<>>
    /\ calls = 0
    /\ last = NoCall
    /\ crashed = FALSE
    /\ codec = NoCodec

\* ---------------------------------------------------------- create_object

\* The popped index is returned (v3: return free).
CreateResultIndex(table, free) == free

\* The id create_object returns: the id stored in the popped slot.
CreateResult(table, free) == SlotId(table, free)

\* A sequence without the entries equal to x.
Without(seq, x) == SelectSeq(seq, LAMBDA y : y # x)

\* The destroyed ids whose destroy was the latest one on this slot.
FreedBy(index) == {h \in DOMAIN stale : LowHalf(h) = index /\ stale[h] = 1}

create_object ==
    /\ ~crashed
    /\ calls < MaxCalls
    /\ LET grow == Empty(free_list)
           size == Len(object_table)
           table == IF grow THEN PushChunk(object_table, NewChunk(size))
                            ELSE object_table
           fl == IF grow THEN free_list \o NewIndices(size) ELSE free_list
           free == Back(fl)
           id == CreateResult(table, free)
       IN  IF Len(fl) = 0
           THEN \* back() and pop_back() of an empty vector are undefined:
                \* the run is not followed any further.
                /\ crashed' = TRUE
                /\ object_table' = table
                /\ free_list' = fl
                /\ last' = Call("create", 0, nullptr, {}, grow)
                /\ UNCHANGED <<v4_ids, peak, freed, run>>
           ELSE /\ object_table' = table
                /\ free_list' = PopBack(fl)
                /\ v4_ids' = v4_ids \cup {id}
                /\ peak' = IF Cardinality(v4_ids \cup {id}) > peak
                           THEN Cardinality(v4_ids \cup {id}) ELSE peak
                /\ freed' = Without(freed, LowHalf(id))
                /\ run' = IF grow THEN <<id>>
                          ELSE IF run # <<>> THEN Append(run, id) ELSE run
                /\ last' = Call("create", id, nullptr, FreedBy(free), grow)
                /\ UNCHANGED crashed
    /\ calls' = calls + 1
    /\ UNCHANGED <<stale, codec>>

\* --------------------------------------------------------- destroy_object

\* stale after a destroy of id that took effect on the slot with this index
Destroyed(id, index) ==
    [h \in DOMAIN stale \cup {id} |->
        IF h = id THEN 1
        ELSE IF LowHalf(h) = index /\ stale[h] <= GenSpan THEN stale[h] + 1
        ELSE stale[h]]

\* The table after obj->id = ... on the slot obj points to.
StoreId(table, obj, id) ==
    [table EXCEPT ![obj[1] + 1][obj[2]].id = id]

\* destroy_object(id) when get_object(id) finds the object.
destroy_object(id) ==
    /\ ~crashed
    /\ calls < MaxCalls
    /\ InRange(id)
    /\ get_object(id) # nullptr
    /\ LET obj == get_object(id)
       IN  /\ object_table' = StoreId(object_table, obj, Repack(Deref(object_table, obj).id))
           /\ free_list' = PushBack(free_list, LowHalf(id))
           /\ last' = Call("destroy", id, obj, {}, FALSE)
    /\ v4_ids' = v4_ids \ {id}
    /\ stale' = Destroyed(id, LowHalf(id))
    /\ freed' = Append(freed, LowHalf(id))
    /\ run' = <<>>
    /\ calls' = calls + 1
    /\ UNCHANGED <<peak, crashed, codec>>

\* ------------------------------------------------------ get_object (call)

\* A call of get_object(id) on an id whose index is inside the table.
GetObject(id) ==
    /\ ~crashed
    /\ InRange(id)
    /\ last' = Call("get", id, get_object(id), {}, FALSE)
    /\ UNCHANGED <<object_table, free_list, v4_ids, stale, peak, freed, run, calls,
                   crashed, codec>>

\* ------------------------------------------------------------------- Spec

\* The ids main() holds or has held: the live ones and the destroyed ones.
KnownIds == v4_ids \cup DOMAIN stale

\* main()'s use of the pool: it creates, destroys ids it holds, and looks up
\* ids it holds or has destroyed.
Next ==
    \/ create_object
    \/ \E id \in v4_ids : destroy_object(id)
    \/ \E id \in KnownIds : GetObject(id)

Spec == Init /\ [][Next]_vars

\* ------------------------------------------ calls with undefined behaviour

\* destroy_object(id) when get_object(id) returns nullptr: line 145 reads and
\* writes obj->id through the null pointer.  A build that keeps the null
\* pointer dies on the access; a build that uses the dereference to drop the
\* "nullptr" arm of get_object's conditional writes to the located slot and
\* goes on to push the index.
destroy_object_null(id) ==
    /\ ~crashed
    /\ calls < MaxCalls
    /\ InRange(id)
    /\ get_object(id) = nullptr
    /\ last' = Call("destroy", id, nullptr, {}, FALSE)
    /\ calls' = calls + 1
    /\ \/ /\ crashed' = TRUE
          /\ UNCHANGED <<object_table, free_list, v4_ids, stale, freed, run>>
       \/ /\ LET obj == Locate(LowHalf(id))
             IN  object_table' =
                     StoreId(object_table, obj, Repack(Deref(object_table, obj).id))
          /\ free_list' = PushBack(free_list, LowHalf(id))
          /\ v4_ids' = v4_ids \ {id}
          /\ stale' = [h \in DOMAIN stale |->
                          IF LowHalf(h) = LowHalf(id) /\ stale[h] <= GenSpan
                          THEN stale[h] + 1 ELSE stale[h]]
          /\ freed' = Append(freed, LowHalf(id))
          /\ run' = <<>>
          /\ UNCHANGED crashed
    /\ UNCHANGED <<peak, codec>>

\* Ids of generation 0 whose index is past the end of the table: the first
\* index the table does not hold, and the largest index an id can carry.
WildIds == {id \in {Allocated(object_table), IndexSpan - 1} : ~InRange(id)}

\* get_object(id) on an id whose index is past the end of the table: line 139
\* reads object_table[...] out of bounds and line 140 reads through what it
\* found there.  The reads fault, or they yield some value, equal to id or not.
get_object_wild(id) ==
    /\ ~crashed
    /\ ~InRange(id)
    /\ \/ /\ crashed' = TRUE
          /\ last' = Call("get", id, nullptr, {}, FALSE)
       \/ /\ last' = Call("get", id, nullptr, {}, FALSE)
          /\ UNCHANGED crashed
       \/ /\ last' = Call("get", id, Locate(LowHalf(id)), {}, FALSE)
          /\ UNCHANGED crashed
    /\ UNCHANGED <<object_table, free_list, v4_ids, stale, peak, freed, run, calls, codec>>

\* Any caller's use of the pool: main()'s, and calls on ids that are stale or
\* were never issued.
NextAny ==
    \/ Next
    \/ \E id \in KnownIds : destroy_object_null(id)
    \/ \E id \in WildIds : get_object_wild(id)

SpecAny == Init /\ [][NextAny]_vars

\* ------------------------------------------------- packing and unpacking

\* The halves exchanged: generation in the low bits, index above them.
PackIndexHigh(index, generation) == WrapId(index * GenSpan) + generation

\* The id that holds index in the low half and generation in the high half:
\* the composition of line 145, index | (generation << 32).
Pack(index, generation) == BitOr(index, ShiftLeft(generation))

\* The two halves the code reads from an id: id & 0xFFFFFFFF and id >> 32.
Unpack(id) == <<LowHalf(id), ShiftRight(id)>>

\* Every index and every generation of the configured widths.
InitCodec ==
    /\ object_table = <<>>
    /\ free_list = <<>>
    /\ v4_ids = {}
    /\ stale = <<>>
    /\ peak = 0
    /\ freed = <<>>
    /\ run = <<>>
    /\ calls = 0
    /\ last = NoCall
    /\ crashed = FALSE
    /\ \E index \in 0 .. IndexSpan - 1, generation \in 0 .. GenSpan - 1 :
           codec = [phase |-> "pair", index |-> index, generation |-> generation,
                    id |-> 0, out |-> <<0, 0>>]

PoolUnchanged ==
    UNCHANGED <<object_table, free_list, v4_ids, stale, peak, freed, run, calls, last,
                crashed>>

PackStep ==
    /\ codec.phase = "pair"
    /\ codec' = [codec EXCEPT !.phase = "packed",
                              !.id = Pack(codec.index, codec.generation)]
    /\ PoolUnchanged

UnpackStep ==
    /\ codec.phase = "packed"
    /\ codec' = [codec EXCEPT !.phase = "unpacked", !.out = Unpack(codec.id)]
    /\ PoolUnchanged

\* The re-packing of destroy_object applied to the packed id.
RepackStep ==
    /\ codec.phase = "unpacked"
    /\ codec' = [codec EXCEPT !.phase = "repacked", !.id = Repack(codec.id),
                              !.out = Unpack(Repack(codec.id))]
    /\ PoolUnchanged

NextCodec == PackStep \/ UnpackStep \/ RepackStep

SpecCodec == InitCodec /\ [][NextCodec]_vars

\* ------------------------------------------------------------------ claims

\* The slot indices of the table.
Indices(table) == 0 .. Allocated(table) - 1

\* A step that is a call of create_object, of destroy_object.
CreateStep == calls' = calls + 1 /\ last'.op = "create"
DestroyStep == calls' = calls + 1 /\ last'.op = "destroy"

\* C1, as claimed: once destroy_object(h) has succeeded, get_object(h)
\* returns nullptr in every later state, whatever creates and destroys follow.
C1_StaleForever ==
    \A h \in DOMAIN stale : get_object(h) = nullptr

\* C1, amended: once destroy_object(h) has succeeded, get_object(h) returns
\* nullptr in every later state in which h's slot has been destroyed fewer
\* than 2^GenBits times, the destroy of h included (slot reuse included).
C1_StaleUntilWrap ==
    \A h \in DOMAIN stale : stale[h] < GenSpan => get_object(h) = nullptr

\* C1 witness: a destroyed id whose slot was reused and destroyed again and
\* is now held by a live id.
C1_Witness ==
    \E h \in DOMAIN stale, l \in v4_ids :
        /\ LowHalf(h) = LowHalf(l)
        /\ stale[h] >= 2 /\ stale[h] < GenSpan
        /\ get_object(h) = nullptr

\* C2: every id returned by create_object and not yet destroyed resolves
\* through get_object, and the object found records that id, whatever other
\* ids were created or destroyed meanwhile.
C2_LiveResolves ==
    \A h \in v4_ids :
        /\ InRange(h)
        /\ get_object(h) # nullptr
        /\ Deref(object_table, get_object(h)).id = h

\* C2 witness: a live id on a reused slot, with another id live and another
\* slot's id destroyed.
C2_Witness ==
    \E h \in v4_ids, l \in v4_ids, d \in DOMAIN stale :
        /\ Generation(h) > 0
        /\ l # h
        /\ LowHalf(d) # LowHalf(h) /\ LowHalf(d) # LowHalf(l)
        /\ get_object(h) = Locate(LowHalf(h))

\* C3: two ids that are live at the same time are unequal (create_object
\* never returns an id that is live) and resolve to different slots.
C3_LiveIdsUnique ==
    /\ [](\A h1 \in v4_ids, h2 \in v4_ids :
            h1 # h2 => /\ get_object(h1) # nullptr
                       /\ get_object(h2) # nullptr
                       /\ get_object(h1) # get_object(h2))
    /\ [][CreateStep => last'.id \notin v4_ids]_vars

\* C3 witness: create_object has just returned an id for a reused slot while
\* two other ids are live.
C3_Witness ==
    /\ last.op = "create"
    /\ last.reused # {}
    /\ Cardinality(v4_ids) >= 3

C5_StaleDestroyNoOp ==
    [][(DestroyStep /\ last'.obj = nullptr) =>
          (UNCHANGED <<object_table, free_list>> /\ ~crashed')]_vars

\* C6, as claimed: get_object on an id whose index the table does not hold
\* reports IndexOutOfRange and leaves the pool as it is.
C6_OutOfRangeReported ==
    (last.op = "get" /\ ~InRange(last.id)) =>
        (last.err = "IndexOutOfRange" /\ ~crashed)

\* C7: a create_object that appends a chunk leaves every slot the table
\* already had unchanged and unoffered, and every id that was live still
\* resolves to the same slot.
C7_GrowthKeepsSlots ==
    [][Len(object_table') > Len(object_table) =>
          /\ SubSeq(object_table', 1, Len(object_table)) = object_table
          /\ \A k \in 1 .. Len(free_list') :
                 free_list'[k] \notin Indices(object_table)
          /\ \A h \in v4_ids :
                 /\ get_object(h) # nullptr
                 /\ get_object(h)' = get_object(h)]_vars

\* C7 witness: the table has just grown to a second chunk while ids were
\* live.
C7_Witness ==
    /\ last.op = "create"
    /\ last.grew
    /\ Len(object_table) >= 2
    /\ Cardinality(v4_ids) > chunk_size

\* C8, as claimed: unpacking the id that packs (index, generation) yields
\* (index, generation), for every index and generation of the widths.
C8_RoundTrip ==
    codec.phase = "unpacked" => codec.out = <<codec.index, codec.generation>>

\* C8, amended: unpacking yields the index, and the generation modulo
\* 2^GenBits: the generation itself when it is below 2^(GenBits-1), and
\* generation - 2^GenBits above (the shift is that of a signed id).  The
\* re-packing of destroy_object keeps the index and makes the generation the
\* next one modulo 2^GenBits.
C8_RoundTripSigned ==
    /\ codec.phase = "unpacked" =>
           /\ codec.out[1] = codec.index
           /\ codec.out[2] = IF 2 * codec.generation < GenSpan
                             THEN codec.generation
                             ELSE codec.generation - GenSpan
           /\ Generation(codec.id) = codec.generation
    /\ codec.phase = "repacked" =>
           /\ codec.out[1] = codec.index
           /\ Generation(codec.id) = (codec.generation + 1) % GenSpan

\* C8 witness: an id with the top bit of its generation set was re-packed.
C8_Witness ==
    /\ codec.phase = "repacked"
    /\ codec.index = IndexSpan - 1
    /\ codec.generation = GenSpan - 1

\* C9: the table holds no more chunks than the most ids ever live at one
\* time need (a chunk is appended only when every slot is occupied), so
\* cycles of creating and destroying the same number of ids add no chunk.
C9_NoLeak ==
    Allocated(object_table) < peak + chunk_size

\* C9 witness: a second cycle as large as the first, which took two chunks,
\* is complete: every live id is on a reused slot.
C9_Witness ==
    /\ Len(object_table) >= 2
    /\ Cardinality(v4_ids) = peak
    /\ \A h \in v4_ids : Generation(h) >= 1

\* C10: a slot's generation is 0 when its chunk is allocated; it changes only
\* in a destroy_object that finds the slot's object, which adds 1 to it
\* (below the largest generation).
C10_GenerationSteps ==
    [][\A i \in Indices(object_table') :
          IF i \notin Indices(object_table)
          THEN Generation(SlotId(object_table', i)) = 0
          ELSE LET g == Generation(SlotId(object_table, i))
                   g2 == Generation(SlotId(object_table', i))
                   hit == /\ DestroyStep
                          /\ last'.obj # nullptr
                          /\ LowHalf(last'.id) = i
               IN  /\ g2 # g => hit
                   /\ (hit /\ g < GenSpan - 1) => g2 = g + 1]_vars

\* C10 witness: a slot is at generation 2 while another is still at 0.
C10_Witness ==
    \E i \in Indices(object_table), j \in Indices(object_table) :
        /\ Generation(SlotId(object_table, i)) = 2
        /\ Generation(SlotId(object_table, j)) = 0

\* The indices a free list holds.
Elements(fl) == {fl[k] : k \in 1 .. Len(fl)}

\* The slot indices of the ids main() holds.
Occupied == {LowHalf(h) : h \in v4_ids}

\* C11: create_object takes one index off the free list (the top one, when
\* the list was not empty), the slot with that index becomes occupied, no
\* slot the table had changes its stored id, and the id returned pairs that
\* index with the generation the slot holds.
C11_CreateTakesOneSlot ==
    [][CreateStep =>
          \E index \in Indices(object_table') :
              /\ ~last'.grew => free_list = Append(free_list', index)
              /\ last'.grew => Len(free_list') = chunk_size - 1
              /\ index \notin Elements(free_list')
              /\ index \notin Occupied
              /\ last'.id \in v4_ids'
              /\ LowHalf(last'.id) = index
              /\ last'.id = SlotId(object_table', index)
              /\ Generation(last'.id) = Generation(SlotId(object_table', index))
              /\ \A i \in Indices(object_table) :
                     SlotId(object_table', i) = SlotId(object_table, i)]_vars

\* C11 witness: create_object has just returned an id of generation 2 for a
\* slot taken off a free list that held other indices too.
C11_Witness ==
    /\ last.op = "create"
    /\ ~last.grew
    /\ Generation(last.id) = 2
    /\ Len(free_list) >= 1

\* C12: a destroy_object that finds its object changes one slot: the slot the
\* id addresses keeps its index, gets the next generation (modulo
\* 2^GenBits) and is no longer held; its index goes on top of the free list,
\* whose other entries stay; every other slot and the number of chunks stay.
C12_DestroyChangesOneSlot ==
    [][(DestroyStep /\ last'.obj # nullptr) =>
          LET i == LowHalf(last'.id)
          IN  /\ last'.obj = Locate(i)
              /\ LowHalf(SlotId(object_table', i)) = i
              /\ Generation(SlotId(object_table', i)) =
                     (Generation(SlotId(object_table, i)) + 1) % GenSpan
              /\ i \in Occupied
              /\ last'.id \notin v4_ids'
              /\ v4_ids' = v4_ids \ {last'.id}
              /\ free_list' = Append(free_list, i)
              /\ Len(object_table') = Len(object_table)
              /\ \A j \in Indices(object_table) \ {i} :
                     SlotId(object_table', j) = SlotId(object_table, j)]_vars

\* C12 witness: a destroy has just put an index on a free list that held
\* another index, while another id stays live.
C12_Witness ==
    /\ last.op = "destroy"
    /\ last.obj # nullptr
    /\ Len(free_list) >= 2
    /\ free_list[Len(free_list)] = LowHalf(last.id)
    /\ v4_ids # {}

\* C13: when a destroy has freed an index that no create has returned yet,
\* create_object returns an id for the index freed last among those; and
\* whenever the free list is not empty it returns the index pushed last.
C13_LifoReuse ==
    [][CreateStep =>
          /\ freed # <<>> =>
                 /\ LowHalf(last'.id) = freed[Len(freed)]
                 /\ ~last'.grew
          /\ free_list # <<>> =>
                 LowHalf(last'.id) = free_list[Len(free_list)]]_vars

\* C13 witness: create_object has just reused the index freed last while an
\* index freed earlier is still waiting.
C13_Witness ==
    /\ last.op = "create"
    /\ last.reused # {}
    /\ freed # <<>>
    /\ LowHalf(last.id) \notin Elements(freed)

\* C14: the creates that follow a growth with no destroy between them return
\* the new chunk's slots by increasing offset, from offset 0, each with
\* generation 0 (the id is the index itself).
C14_FreshChunkOrder ==
    \A k \in 1 .. Len(run) :
        /\ run[k] = (Len(object_table) - 1) * chunk_size + (k - 1)
        /\ Generation(run[k]) = 0
        /\ LowHalf(run[k]) = run[k]

\* C14 witness: every slot of the second chunk was handed out in one run of
\* creates.
C14_Witness ==
    /\ Len(object_table) = 2
    /\ Len(run) = chunk_size

\* C15: a create_object that finds the free list empty appends one chunk of
\* chunk_size slots, with the indices k * chunk_size .. k * chunk_size +
\* chunk_size - 1 for k the number of chunks before, each slot at generation
\* 0 and holding its index, and pushes each of these indices once (one of
\* them is popped again by the same call).
C15_GrowthStep ==
    [][CreateStep =>
          IF free_list = <<>>
          THEN LET k == Len(object_table)
                   fresh == k * chunk_size .. k * chunk_size + chunk_size - 1
                   popped == LowHalf(last'.id)
               IN  /\ last'.grew
                   /\ Len(object_table') = k + 1
                   /\ SubSeq(object_table', 1, k) = object_table
                   /\ DOMAIN object_table'[k + 1] = 0 .. chunk_size - 1
                   /\ Indices(object_table') \ Indices(object_table) = fresh
                   /\ \A i \in fresh :
                          /\ SlotId(object_table', i) = i
                          /\ Generation(SlotId(object_table', i)) = 0
                   /\ Len(free_list') = chunk_size - 1
                   /\ Cardinality(Elements(free_list')) = chunk_size - 1
                   /\ popped \notin Elements(free_list')
                   /\ Elements(free_list') \cup {popped} = fresh
          ELSE /\ ~last'.grew
               /\ object_table' = object_table]_vars

\* C15 witness: the table has just grown from one chunk to two.
C15_Witness ==
    /\ last.op = "create"
    /\ last.grew
    /\ Len(object_table) = 2
    /\ Len(free_list) = chunk_size - 1

\* C16: every create_object pops from a free list that holds an index (an
\* empty list is refilled by a growth first), so the call returns an id that
\* is live and resolves; it is never the call that ends the run.
C16_PopNeverEmpty ==
    [][CreateStep =>
          /\ ~crashed'
          /\ free_list = <<>> => Len(object_table') = Len(object_table) + 1
          /\ Len(free_list') + 1 =
                 Len(free_list) + Allocated(object_table') - Allocated(object_table)
          /\ last'.id \in v4_ids'
          /\ LowHalf(last'.id) \in Indices(object_table')
          /\ SlotId(object_table', LowHalf(last'.id)) = last'.id]_vars

\* C16 witness: create_object has just refilled an empty free list for the
\* second time and popped from it.
C16_Witness ==
    /\ last.op = "create"
    /\ last.grew
    /\ ~crashed
    /\ Len(object_table) = 2
    /\ get_object(last.id) # nullptr
    /\ calls > chunk_size + 1

\* C17: no index on the free list is the index of an id that was returned
\* by create_object and not destroyed since.
C17_FreeDisjointOccupied ==
    Elements(free_list) \cap Occupied = {}

\* C17 witness: indices wait on the free list, one of them freed by a
\* destroy, while ids are live, one of them on a reused slot.
C17_Witness ==
    /\ freed # <<>>
    /\ Len(free_list) >= 2
    /\ \E h \in v4_ids : Generation(h) >= 1

\* C20: the free list holds no index twice, and the indices on it together
\* with the indices of the live ids are the indices of the table: the two
\* counts add up to chunks * chunk_size.
C20_FreeListPartition ==
    /\ Cardinality(Elements(free_list)) = Len(free_list)
    /\ Elements(free_list) \cup Occupied = Indices(object_table)
    /\ Cardinality(Occupied) = Cardinality(v4_ids)
    /\ Len(free_list) + Cardinality(v4_ids) = Len(object_table) * chunk_size

\* C20 witness: two chunks, with indices free in both and ids live.
C20_Witness ==
    /\ Len(object_table) = 2
    /\ \E a \in Elements(free_list), b \in Elements(free_list) :
           a < chunk_size /\ b >= chunk_size
    /\ v4_ids # {}
    /\ freed # <<>>

\* C18: when the slot of a destroyed id has been destroyed 2^GenBits times,
\* the destroy of that id included, the slot's generation is back at the
\* id's generation and get_object finds the slot for the id again.
C18_WrapRevalidates ==
    \A h \in DOMAIN stale :
        stale[h] = GenSpan =>
            /\ InRange(h)
            /\ SlotId(object_table, LowHalf(h)) = h
            /\ get_object(h) = Locate(LowHalf(h))

\* C18 witness: an id that was destroyed and not returned again resolves,
\* its slot being on the free list.
C18_Witness ==
    \E h \in DOMAIN stale :
        /\ stale[h] = GenSpan
        /\ h \notin v4_ids
        /\ LowHalf(h) \in Elements(free_list)
        /\ get_object(h) # nullptr

\* ---------------------------------------------------- comparing two ids

\* Every two pairs (index, generation) of the configured widths.
InitOrder ==
    /\ object_table = <<>>
    /\ free_list = <<>>
    /\ v4_ids = {}
    /\ stale = <<>>
    /\ peak = 0
    /\ freed = <<>>
    /\ run = <<>>
    /\ calls = 0
    /\ last = NoCall
    /\ crashed = FALSE
    /\ \E i1 \in 0 .. IndexSpan - 1, g1 \in 0 .. GenSpan - 1,
          i2 \in 0 .. IndexSpan - 1, g2 \in 0 .. GenSpan - 1 :
           codec = [phase |-> "pairs", a |-> <<i1, g1>>, b |-> <<i2, g2>>,
                    ida |-> 0, idb |-> 0, equal |-> FALSE, less |-> FALSE]

PackPairStep ==
    /\ codec.phase = "pairs"
    /\ codec' = [codec EXCEPT !.phase = "ids",
                              !.ida = Pack(codec.a[1], codec.a[2]),
                              !.idb = Pack(codec.b[1], codec.b[2])]
    /\ PoolUnchanged

\* The two ids compared as the integers they are (object_id is long long).
CompareStep ==
    /\ codec.phase = "ids"
    /\ codec' = [codec EXCEPT !.phase = "compared",
                              !.equal = (codec.ida = codec.idb),
                              !.less = (codec.ida < codec.idb)]
    /\ PoolUnchanged

NextOrder == PackPairStep \/ CompareStep

SpecOrder == InitOrder /\ [][NextOrder]_vars

\* A generation of the high half read as a signed number, as id >> 32 is.
SignedGeneration(g) == IF 2 * g < GenSpan THEN g ELSE g - GenSpan

\* C19, as claimed: ids with the same index and different generations are
\* unequal, and ids compare by index first and by generation second.
C19_IndexMajor ==
    codec.phase = "compared" =>
        /\ (codec.a[1] = codec.b[1] /\ codec.a[2] # codec.b[2]) => ~codec.equal
        /\ codec.less <=>
               \/ codec.a[1] < codec.b[1]
               \/ codec.a[1] = codec.b[1] /\ codec.a[2] < codec.b[2]

\* C19, amended: ids with the same index and different generations are
\* unequal, and ids compare by generation first (as the signed number
\* id >> 32) and by index second.
C19_GenerationMajor ==
    codec.phase = "compared" =>
        LET s1 == SignedGeneration(codec.a[2])
            s2 == SignedGeneration(codec.b[2])
        IN  /\ (codec.a[1] = codec.b[1] /\ codec.a[2] # codec.b[2]) => ~codec.equal
            /\ codec.equal <=> codec.a = codec.b
            /\ codec.less <=>
                   \/ s1 < s2
                   \/ s1 = s2 /\ codec.a[1] < codec.b[1]

\* C19 witness: the id with the smaller index and the larger generation was
\* compared and is not the smaller one.
C19_Witness ==
    /\ codec.phase = "compared"
    /\ codec.a = <<0, 1>>
    /\ codec.b = <<1, 0>>
    /\ ~codec.less

\* C21: the index half of the id stored in every slot of the table is the
\* slot's own index, chunk number * chunk_size + offset, in every state:
\* the growth writes it so and no create or destroy changes it.
C21_StoredIndexIsSlotIndex ==
    \A c \in 1 .. Len(object_table), o \in 0 .. chunk_size - 1 :
        LowHalf(object_table[c][o].id) = (c - 1) * chunk_size + o

\* C21 witness: a slot of the second chunk was destroyed and handed out
\* again, and a slot of the first chunk was destroyed twice.
C21_Witness ==
    /\ Len(object_table) = 2
    /\ \E o \in 0 .. chunk_size - 1 :
           /\ Generation(object_table[2][o].id) >= 1
           /\ object_table[2][o].id \in v4_ids
    /\ \E o \in 0 .. chunk_size - 1 : Generation(object_table[1][o].id) >= 2

====
